---- MODULE Spec2Model ----
(***************************************************************************)
(* Model of src/app.py, the Zendesk support dashboard: the cached          *)
(* warehouse loaders, the warehouse client singleton, the render pass of   *)
(* main() and the reshaping functions main() applies to the loaded tables. *)
(***************************************************************************)
EXTENDS Integers, Sequences, FiniteSets, TLC

VARIABLES
    now,        \* wall clock, in seconds
    has_secret, \* "gcp_service_account" in st.secrets
    client,     \* the st.cache_resource entry of get_bq_client
    built,      \* number of bigquery.Client objects constructed so far
    warehouse,  \* the rows the warehouse currently returns for each query
    cache,      \* the st.cache_data entry of each loader
    pc,         \* position of main(): "idle", the loader about to be called, "body"
    locals,     \* stats, daily_df, agent_df, tag_df, heatmap_df of the running main()
    ran,        \* loaders whose warehouse query ran during the current render
    out,        \* the elements the current render has emitted, in order
    started,    \* when the running render was entered; 0 while none runs
    last_failure \* how the previous render ended: the loader that raised, and when
                \* that render had been entered

vars ==
    <<now, has_secret, client, built, warehouse, cache, pc, locals, ran, out,
      started, last_failure>>

(***************************************************************************)
(* Bounds of the model                                                     *)
(***************************************************************************)
MaxTime == 600

\* @st.cache_data(ttl=300)
TTL == 300

TimeSteps == {150, 300}

(***************************************************************************)
(* Loaders, in the order main() calls them                                 *)
(***************************************************************************)
LoaderOrder ==
    << "load_current_stats", "load_daily_metrics", "load_agent_performance",
       "load_tag_analysis", "load_hourly_heatmap" >>

Loaders == { LoaderOrder[i] : i \in 1..Len(LoaderOrder) }

IndexOf(l) == CHOOSE i \in 1..Len(LoaderOrder) : LoaderOrder[i] = l

\* where main() goes after loader l returned
AfterLoader(l) ==
    IF IndexOf(l) < Len(LoaderOrder) THEN LoaderOrder[IndexOf(l) + 1] ELSE "body"

NoValue == [loaded |-> FALSE, rows |-> <<>>, asOf |-> 0]

NoEntry == [present |-> FALSE, value |-> NoValue, stored_at |-> 0]

NoFailure == [loader |-> "none", entered |-> 0]

NoClient == [present |-> FALSE, credentials |-> "none"]

\* client.query(query).to_dataframe() at time t: the rows the warehouse holds
Query(l, t) == [loaded |-> TRUE, rows |-> warehouse[l], asOf |-> t]

(***************************************************************************)
(* st.cache_data(ttl=300): an entry is live while its age is below the ttl *)
(***************************************************************************)
\* a cache that still serves an entry whose age equals the ttl
LiveInclusive(entry, t) == entry.present /\ t - entry.stored_at <= TTL

Live(entry, t) == entry.present /\ t - entry.stored_at < TTL

Store(value, t) == [present |-> TRUE, value |-> value, stored_at |-> t]

(***************************************************************************)
(* get_bq_client under st.cache_resource                                   *)
(***************************************************************************)
NewClient ==
    [present |-> TRUE,
     credentials |-> IF has_secret THEN "service_account" ELSE "ambient"]

\* get_bq_client without st.cache_resource: a client is constructed on every call
get_bq_client_uncached == [client |-> NewClient, constructed |-> 1]

\* the cached client when there is one, else a newly constructed one
get_bq_client ==
    IF client.present THEN [client |-> client, constructed |-> 0]
    ELSE [client |-> NewClient, constructed |-> 1]

(***************************************************************************)
(* Elements of the page                                                    *)
(***************************************************************************)
Header == [kind |-> "header"]

ErrorMessage == [kind |-> "error"]

CountKind(s, k) == Cardinality({ i \in 1..Len(s) : s[i].kind = k })

(***************************************************************************)
(* Numbers.  Rates and percentages are fixed-point with two decimals: the  *)
(* number x is held as 100 * x, so 0.65 is 65 and 70 (percent) is 7000.    *)
(***************************************************************************)
Scale == 100

Abs(x) == IF x < 0 THEN -x ELSE x

Min2(a, b) == IF a < b THEN a ELSE b

\* NaN, and a defined quotient num / den
NaN == [defined |-> FALSE, num |-> 0, den |-> 1]

Ratio(n, d) == [defined |-> TRUE, num |-> n, den |-> d]

RECURSIVE SumSeq(_)
SumSeq(s) == IF s = <<>> THEN 0 ELSE s[1] + SumSeq(Tail(s))

\* DataFrame.head(n)
HeadRows(s, n) == SubSeq(s, 1, Min2(n, Len(s)))

\* position (from 0) of row i in a stable ascending sort on key
RankAsc(key, i) ==
    Cardinality({ j \in 1..Len(key) :
                    key[j] < key[i] \/ (key[j] = key[i] /\ j < i) })

\* DataFrame.sort_values: rows by ascending key
SortAsc(s, key) ==
    [ p \in 1..Len(s) |-> s[CHOOSE i \in 1..Len(s) : RankAsc(key, i) = p - 1] ]

\* position (from 0) of row i in descending key order, first occurrence first
RankDesc(key, i) ==
    Cardinality({ j \in 1..Len(key) :
                    key[j] > key[i] \/ (key[j] = key[i] /\ j < i) })

\* DataFrame.nlargest(n, column), keep='first'
NLargest(n, s, key) ==
    [ p \in 1..Min2(n, Len(s)) |->
        s[CHOOSE i \in 1..Len(s) : RankDesc(key, i) = p - 1] ]

(***************************************************************************)
(* render_metric_card                                                      *)
(***************************************************************************)
NoDelta == [text |-> "", num |-> 0]

\* `if delta:` is false for None and for the empty string
Truthy(delta) == delta.text # ""

render_metric_card(value, label, delta, delta_type) ==
    [kind |-> "kpi", value |-> value, label |-> label,
     has_delta |-> Truthy(delta),
     delta_class |->
        IF ~Truthy(delta) THEN ""
        ELSE IF delta_type = "positive" THEN "metric-delta-positive"
             ELSE "metric-delta-negative",
     delta_symbol |->
        IF ~Truthy(delta) THEN ""
        ELSE IF delta_type = "positive" THEN "up" ELSE "down",
     delta |-> IF Truthy(delta) THEN delta ELSE NoDelta]

(***************************************************************************)
(* main(): the KPI cards row                                               *)
(***************************************************************************)
CsatGood == 65 * Scale

BacklogOk == 150

CsatCard(stats) ==
    render_metric_card(stats.csat_rate, "CSAT Score",
        IF stats.csat_rate > CsatGood
            THEN [text |-> "2.3% vs last week", num |-> 0] ELSE NoDelta,
        IF stats.csat_rate > CsatGood THEN "positive" ELSE "negative")

BacklogCard(stats) ==
    render_metric_card(stats.backlog, "Open Backlog", NoDelta,
        IF stats.backlog < BacklogOk THEN "positive" ELSE "negative")

ResolutionCard(stats) ==
    render_metric_card(stats.avg_resolution_hours, "Avg Resolution", NoDelta, "positive")

SameDayCard(stats) ==
    render_metric_card(stats.same_day_pct, "Same-Day Resolution", NoDelta, "positive")

TodayDelta(stats) == stats.today_tickets - stats.yesterday_tickets

\* the framing with its test the other way round: more tickets framed positive
TodayDeltaTypeInverted(stats) == IF TodayDelta(stats) > 0 THEN "positive" ELSE "negative"

TodayDeltaType(stats) == IF TodayDelta(stats) > 0 THEN "negative" ELSE "positive"

TodayDeltaText(stats) == [text |-> "vs yesterday", num |-> Abs(TodayDelta(stats))]

TodayCard(stats) ==
    render_metric_card(stats.today_tickets, "Today's Tickets",
        TodayDeltaText(stats), TodayDeltaType(stats))

KpiRow(stats) ==
    << CsatCard(stats), BacklogCard(stats), ResolutionCard(stats),
       SameDayCard(stats), TodayCard(stats), [kind |-> "spacer"] >>

(***************************************************************************)
(* main(): ticket volume trend and CSAT trend                              *)
(***************************************************************************)
Window == 7

Column(df, f) == [ i \in 1..Len(df) |-> df[i][f] ]

\* a rolling mean over the samples there are (min_periods=1)
RollingMeanPartial(y, w) ==
    [ i \in 1..Len(y) |->
        IF i < w THEN Ratio(SumSeq(SubSeq(y, 1, i)), i)
        ELSE Ratio(SumSeq(SubSeq(y, i - w + 1, i)), w) ]

\* the rows as the warehouse returned them, newest first
SortByDateSkipped(daily_df) == daily_df

\* Series.rolling(w).mean(): undefined until w samples are in the window
RollingMean(y, w) ==
    [ i \in 1..Len(y) |->
        IF i < w THEN NaN ELSE Ratio(SumSeq(SubSeq(y, i - w + 1, i)), w) ]

SortByDate(daily_df) == SortAsc(daily_df, Column(daily_df, "created_date"))

TrendChart(daily_df) ==
    LET daily_df_sorted == SortByDate(daily_df) IN
    [kind |-> "chart", name |-> "trend",
     x |-> Column(daily_df_sorted, "created_date"),
     y |-> Column(daily_df_sorted, "ticket_count"),
     ma7 |-> RollingMean(Column(daily_df_sorted, "ticket_count"), Window)]

CsatTarget == 70 * Scale

CsatChart(daily_df) ==
    LET daily_df_sorted == SortByDate(daily_df) IN
    [kind |-> "chart", name |-> "csat_trend",
     x |-> Column(daily_df_sorted, "created_date"),
     y |-> [ i \in 1..Len(daily_df_sorted) |-> daily_df_sorted[i].csat_rate * 100 ],
     hline |-> CsatTarget]

TrendRow(daily_df) ==
    << [kind |-> "section", name |-> "Ticket Volume Trend"], TrendChart(daily_df),
       [kind |-> "section", name |-> "CSAT Trend"], CsatChart(daily_df) >>

(***************************************************************************)
(* main(): volume heatmap                                                  *)
(***************************************************************************)
day_order ==
    << "Monday", "Tuesday", "Wednesday", "Thursday", "Friday", "Saturday", "Sunday" >>

RECURSIVE SortedSeqOf(_)
SortedSeqOf(S) ==
    IF S = {} THEN <<>>
    ELSE LET m == CHOOSE x \in S : \A y \in S : x <= y
         IN <<m>> \o SortedSeqOf(S \ {m})

\* rows of the table in group (d, h)
Group(heatmap_df, d, h) ==
    SelectSeq(heatmap_df,
              LAMBDA r : r.created_day_of_week = d /\ r.created_hour = h)

\* a pivot that keeps one row of a group (aggfunc='first')
CellFirst(heatmap_df, d, h) ==
    LET g == Group(heatmap_df, d, h) IN
    IF g = <<>> THEN NaN ELSE Ratio(g[1].ticket_count, 1)

\* aggfunc='sum' over one group; a group without rows has no cell
CellSum(heatmap_df, d, h) ==
    LET g == Group(heatmap_df, d, h) IN
    IF g = <<>> THEN NaN ELSE Ratio(SumSeq(Column(g, "ticket_count")), 1)

\* DataFrame.pivot_table(index=day, columns=hour, values=count, aggfunc='sum'):
\* one row per day present, one column per hour present, ascending
pivot_table(heatmap_df) ==
    LET days  == { heatmap_df[i].created_day_of_week : i \in 1..Len(heatmap_df) }
        hours == { heatmap_df[i].created_hour : i \in 1..Len(heatmap_df) }
    IN [index   |-> days,
        columns |-> SortedSeqOf(hours),
        cell    |-> [ d \in days |-> [ h \in hours |-> CellSum(heatmap_df, d, h) ] ]]

\* DataFrame.reindex(labels): rows in the order of labels, a label the frame
\* does not have gives a row of NaN
reindex(pivot, labels) ==
    [index   |-> labels,
     columns |-> pivot.columns,
     values  |->
        [ i \in 1..Len(labels) |->
            [ c \in 1..Len(pivot.columns) |->
                IF labels[i] \in pivot.index
                    THEN pivot.cell[labels[i]][pivot.columns[c]]
                    ELSE NaN ] ]]

HeatmapPivot(heatmap_df) == reindex(pivot_table(heatmap_df), day_order)

HeatmapChart(heatmap_df) ==
    LET heatmap_pivot == HeatmapPivot(heatmap_df) IN
    [kind |-> "chart", name |-> "heatmap",
     z |-> heatmap_pivot.values,
     x |-> heatmap_pivot.columns,
     y |-> heatmap_pivot.index]

(***************************************************************************)
(* main(): top issue categories                                            *)
(***************************************************************************)
TopTags == 8

TagChart(tag_df) ==
    LET tag_df_top == HeadRows(tag_df, TopTags) IN
    [kind |-> "chart", name |-> "top_categories",
     x |-> Column(tag_df_top, "total_tickets"),
     y |-> Column(tag_df_top, "tag")]

HeatmapRow(heatmap_df, tag_df) ==
    << [kind |-> "section", name |-> "Volume Heatmap"], HeatmapChart(heatmap_df),
       [kind |-> "section", name |-> "Top Issue Categories"], TagChart(tag_df) >>

(***************************************************************************)
(* main(): agent performance                                               *)
(***************************************************************************)
TopAgents == 10

TopCsat == 5

MinTickets == 10

\* agent_df['created_month'].max(); of an empty column it is NaN, which no row equals
MaxMonth(agent_df) ==
    IF agent_df = <<>> THEN NaN
    ELSE LET months == { agent_df[i].created_month : i \in 1..Len(agent_df) }
         IN Ratio(CHOOSE m \in months : \A k \in months : k <= m, 1)

CurrentMonth(agent_df) ==
    LET mx == MaxMonth(agent_df) IN
    SelectSeq(agent_df, LAMBDA r : mx.defined /\ r.created_month = mx.num)

TopAgentsOf(current_month) ==
    NLargest(TopAgents, current_month, Column(current_month, "tickets_handled"))

\* the top-CSAT filter with the threshold dropped
EligibleAll(current_month) == current_month

Eligible(current_month) ==
    SelectSeq(current_month, LAMBDA r : r.tickets_handled >= MinTickets)

TopCsatOf(current_month) ==
    LET eligible == Eligible(current_month) IN
    NLargest(TopCsat, eligible, Column(eligible, "csat_rate"))

LeaderboardChart(top_agents) ==
    [kind |-> "chart", name |-> "top_agents", rows |-> top_agents,
     x |-> Column(top_agents, "agent_name"),
     y |-> Column(top_agents, "tickets_handled")]

TopCsatChart(top_csat) ==
    [kind |-> "chart", name |-> "top_csat", rows |-> top_csat,
     x |-> [ i \in 1..Len(top_csat) |-> top_csat[i].csat_rate * 100 ],
     y |-> Column(top_csat, "agent_name")]

\* the agent section without its two emptiness tests
AgentSectionUnguarded(agent_df) ==
    LET current_month == CurrentMonth(agent_df)
    IN  << [kind |-> "section", name |-> "Agent Performance"],
           LeaderboardChart(TopAgentsOf(current_month)),
           TopCsatChart(TopCsatOf(current_month)) >>

AgentSection(agent_df) ==
    LET current_month == CurrentMonth(agent_df)
        top_agents    == TopAgentsOf(current_month)
        top_csat      == TopCsatOf(current_month)
    IN  << [kind |-> "section", name |-> "Agent Performance"] >>
        \o (IF current_month # <<>> THEN << LeaderboardChart(top_agents) >> ELSE <<>>)
        \o (IF current_month # <<>> /\ top_csat # <<>>
                THEN << TopCsatChart(top_csat) >> ELSE <<>>)

FooterAt(t) == [kind |-> "footer", updated |-> t]

(***************************************************************************)
(* Rows of the warehouse tables                                            *)
(***************************************************************************)
StatsRow(today, yesterday) ==
    [total_tickets |-> 1000, backlog |-> 120, avg_resolution_hours |-> 450,
     same_day_pct |-> 4000, csat_rate |-> 6600, today_tickets |-> today,
     yesterday_tickets |-> yesterday, fast_response_pct |-> 5000]

DailyRow(date, count) ==
    [created_date |-> date, ticket_count |-> count, csat_rate |-> 65]

AgentRow(name, month, handled, csat) ==
    [agent_name |-> name, created_month |-> month, tickets_handled |-> handled,
     csat_rate |-> csat]

TagRow(tag, total) ==
    [tag |-> tag, total_tickets |-> total, avg_resolution |-> 90, avg_csat |-> 70]

HeatRow(day, hour, count) ==
    [created_day_of_week |-> day, created_hour |-> hour, ticket_count |-> count]

\* what the warehouse may hold while the dashboard runs: every table that can be
\* empty is empty in some state, and the agent table has agents below and at the
\* threshold of the top-CSAT chart
WarehouseStates ==
    [ load_current_stats     : { << StatsRow(3, 2) >> },
      load_daily_metrics     : { << DailyRow(2, 5), DailyRow(1, 4) >> },
      load_agent_performance : { <<>>, << AgentRow(1, 2, 9, 90) >>,
                                 << AgentRow(1, 2, 12, 80), AgentRow(2, 1, 30, 90) >> },
      load_tag_analysis      : { <<>>, << TagRow("billing", 7) >> },
      load_hourly_heatmap    : { << HeatRow("Monday", 9, 5) >> } ]

(***************************************************************************)
(* The render pass                                                         *)
(***************************************************************************)
Init ==
    /\ now = 0
    /\ has_secret \in BOOLEAN
    /\ client = NoClient
    /\ built = 0
    /\ warehouse \in WarehouseStates
    /\ cache = [ l \in Loaders |-> NoEntry ]
    /\ pc = "idle"
    /\ locals = [ l \in Loaders |-> NoValue ]
    /\ ran = {}
    /\ out = <<>>
    /\ started = 0
    /\ last_failure = NoFailure

\* main() is entered: the header is emitted, then the loaders are called in order
StartRender ==
    /\ pc = "idle"
    /\ pc' = LoaderOrder[1]
    /\ out' = << Header >>
    /\ locals' = [ l \in Loaders |-> NoValue ]
    /\ ran' = {}
    /\ started' = now
    /\ UNCHANGED <<now, has_secret, client, built, warehouse, cache, last_failure>>

\* the loader at pc has a live entry: the entry is returned
LoadHit ==
    /\ pc \in Loaders
    /\ Live(cache[pc], now)
    /\ locals' = [locals EXCEPT ![pc] = cache[pc].value]
    /\ pc' = AfterLoader(pc)
    /\ UNCHANGED <<now, has_secret, client, built, warehouse, cache, ran, out,
                   started, last_failure>>

\* no live entry: the loader body runs, the query succeeds and its result is stored
LoadMiss ==
    /\ pc \in Loaders
    /\ ~Live(cache[pc], now)
    /\ client' = get_bq_client.client
    /\ built' = built + get_bq_client.constructed
    /\ ran' = ran \cup {pc}
    /\ cache' = [cache EXCEPT ![pc] = Store(Query(pc, now), now)]
    /\ locals' = [locals EXCEPT ![pc] = Query(pc, now)]
    /\ pc' = AfterLoader(pc)
    /\ UNCHANGED <<now, has_secret, warehouse, out, started, last_failure>>

\* an error handler that also empties the cache (st.cache_data.clear())
CacheClearedAfterError == [ l \in Loaders |-> NoEntry ]

\* a loader that raises stores nothing: the cache is as it was
CacheAfterError == cache

\* an error handler that still closes the page with the footer
ErrorOutputThenFooter(o) == Append(Append(o, ErrorMessage), FooterAt(0))

\* except Exception: st.error(...); return
ErrorOutput(o) == Append(o, ErrorMessage)

\* no live entry and no client yet: constructing the client raises
LoadClientError ==
    /\ pc \in Loaders
    /\ ~Live(cache[pc], now)
    /\ ~client.present
    /\ out' = ErrorOutput(out)
    /\ pc' = "idle"
    /\ cache' = CacheAfterError
    /\ last_failure' = [loader |-> pc, entered |-> started]
    /\ started' = 0
    /\ UNCHANGED <<now, has_secret, client, built, warehouse, locals, ran>>

\* no live entry: the client is there but the query raises; nothing is stored
LoadQueryError ==
    /\ pc \in Loaders
    /\ ~Live(cache[pc], now)
    /\ client' = get_bq_client.client
    /\ built' = built + get_bq_client.constructed
    /\ ran' = ran \cup {pc}
    /\ out' = ErrorOutput(out)
    /\ pc' = "idle"
    /\ cache' = CacheAfterError
    /\ last_failure' = [loader |-> pc, entered |-> started]
    /\ started' = 0
    /\ UNCHANGED <<now, has_secret, warehouse, locals>>

\* what main() emits once the five loaders have returned
Body(lc, t) ==
    KpiRow(lc["load_current_stats"].rows[1])
    \o TrendRow(lc["load_daily_metrics"].rows)
    \o HeatmapRow(lc["load_hourly_heatmap"].rows, lc["load_tag_analysis"].rows)
    \o AgentSection(lc["load_agent_performance"].rows)
    \o << FooterAt(t) >>

RenderBody ==
    /\ pc = "body"
    /\ out' = out \o Body(locals, now)
    /\ pc' = "idle"
    /\ last_failure' = NoFailure
    /\ started' = 0
    /\ UNCHANGED <<now, has_secret, client, built, warehouse, cache, locals, ran>>

\* time passes, between renders and during one
Tick ==
    /\ \E d \in TimeSteps : now + d <= MaxTime /\ now' = now + d
    /\ UNCHANGED <<has_secret, client, built, warehouse, cache, pc, locals, ran, out,
                   started, last_failure>>

Next ==
    \/ StartRender
    \/ LoadHit
    \/ LoadMiss
    \/ LoadClientError
    \/ LoadQueryError
    \/ RenderBody
    \/ Tick

Spec == Init /\ [][Next]_vars

(***************************************************************************)
(* Claims about the cache, the client and the render pass (under Spec)     *)
(***************************************************************************)
\* the step in which main() calls loader l
Calls(l) == pc = l /\ pc' # l

\* the call of loader l returned a value to main()
Returned(l) == pc' = AfterLoader(l)

FreshEntry(l) ==
    [present |-> TRUE,
     value |-> [loaded |-> TRUE, rows |-> warehouse[l], asOf |-> now],
     stored_at |-> now]

\* C1: a call of a loader whose stored entry is younger than 300 seconds returns
\* the stored result and runs no warehouse query; a call made when the entry is
\* 300 seconds old or older (or when nothing was ever stored) runs the query,
\* and the result it returns is stored with the current time.
C1_CacheTtl ==
    [][ \A l \in Loaders :
          Calls(l) =>
            IF cache[l].present /\ now - cache[l].stored_at < 300
            THEN /\ Returned(l)
                 /\ l \notin ran'
                 /\ cache' = cache
                 /\ locals'[l] = cache[l].value
            ELSE /\ cache[l].present => l \in ran'
                 /\ Returned(l) =>
                      /\ l \in ran'
                      /\ cache'[l] = FreshEntry(l)
                      /\ locals'[l] = FreshEntry(l).value ]_vars

\* one render in which the first loader's entry had expired and was fetched again
\* while the second loader's entry, stored later, was still live and was returned
C1_Witness ==
    /\ "load_current_stats" \in ran
    /\ cache["load_current_stats"].stored_at >= 300
    /\ locals["load_current_stats"] = cache["load_current_stats"].value
    /\ locals["load_daily_metrics"].loaded
    /\ "load_daily_metrics" \notin ran
    /\ locals["load_daily_metrics"].asOf < now

HasError(o) == \E i \in 1..Len(o) : o[i].kind = "error"

\* C2: when a loader raises, the render emits exactly one error message, as its
\* last element, and returns: no KPI card, no chart and no footer is emitted.
C2_ErrorAbortsRender ==
    HasError(out) =>
        /\ CountKind(out, "error") = 1
        /\ out[Len(out)].kind = "error"
        /\ \A i \in 1..Len(out) : out[i].kind \notin {"kpi", "chart", "footer", "section"}
        /\ pc = "idle"

\* the fourth loader failed after three loaders had succeeded
C2_Witness ==
    /\ HasError(out)
    /\ locals["load_agent_performance"].loaded
    /\ ~locals["load_tag_analysis"].loaded

\* a render that ran to its end
Completed == pc = "idle" /\ out # <<>> /\ ~HasError(out)

ChartNames(o) == { o[i].name : i \in { j \in 1..Len(o) : o[j].kind = "chart" } }

ChartNamed(o, n) == o[CHOOSE i \in 1..Len(o) : o[i].kind = "chart" /\ o[i].name = n]

\* the rows of the agent table in its latest month
LatestMonthRows(rows) ==
    { i \in 1..Len(rows) : \A j \in 1..Len(rows) : rows[j].created_month <= rows[i].created_month }

\* C7: a completed render always ends with the footer; with no agent row in the
\* latest month (an empty agent table) both agent charts are skipped; with
\* latest-month agents none of which handled 10 tickets the tickets leaderboard
\* is drawn and only the top-CSAT chart is skipped; with an empty tag table the
\* top-categories chart is drawn with zero bars.
C7_EmptyResults ==
    Completed =>
        LET agents == locals["load_agent_performance"].rows
            tags   == locals["load_tag_analysis"].rows
        IN  /\ out[Len(out)].kind = "footer"
            /\ CountKind(out, "footer") = 1
            /\ LatestMonthRows(agents) = {} =>
                  ChartNames(out) \cap {"top_agents", "top_csat"} = {}
            /\ ( /\ LatestMonthRows(agents) # {}
                 /\ \A i \in LatestMonthRows(agents) : agents[i].tickets_handled < 10 ) =>
                  /\ "top_agents" \in ChartNames(out)
                  /\ "top_csat" \notin ChartNames(out)
            /\ tags = <<>> =>
                  /\ "top_categories" \in ChartNames(out)
                  /\ Len(ChartNamed(out, "top_categories").x) = 0

\* a completed render over an empty tag table and an empty agent table
C7_Witness ==
    /\ Completed
    /\ locals["load_tag_analysis"].rows = <<>>
    /\ locals["load_agent_performance"].rows = <<>>
    /\ locals["load_agent_performance"].loaded

\* C8: at most one warehouse client is ever constructed; it takes its
\* credentials from the gcp_service_account secret when that is configured and
\* from the environment otherwise; once there is a client every later call
\* returns it and constructs nothing.
C8_ClientSingleton ==
    /\ [](built <= 1)
    /\ [](client.present =>
            /\ built = 1
            /\ client.credentials = IF has_secret THEN "service_account" ELSE "ambient")
    /\ [][client.present => client' = client /\ built' = built]_vars

\* the one client served the queries of two renders
C8_Witness ==
    /\ built = 1
    /\ client.present
    /\ client.credentials = "service_account"
    /\ cache["load_current_stats"].stored_at >= 300
    /\ "load_current_stats" \in ran

(***************************************************************************)
(* Failed renders and the render after them (under Spec)                   *)
(***************************************************************************)
Before(j, l) == IndexOf(j) < IndexOf(l)

\* the previous render ended with loader k raising
FailedAt(k) == last_failure.loader = k

\* main() calls the loaders in the order stats, daily, agent, tag, heatmap, each
\* at most once in a render; a loader that raises ends the render, stores
\* nothing and leaves the entries of the others as they are
CallOrderAndAbort(l) ==
    /\ LoaderOrder = << "load_current_stats", "load_daily_metrics",
                        "load_agent_performance", "load_tag_analysis",
                        "load_hourly_heatmap" >>
    /\ \A j \in Loaders : locals[j].loaded <=> Before(j, l)
    /\ \A j \in Loaders : j \in ran => Before(j, l)
    /\ ~Returned(l) =>
          /\ pc' = "idle"
          /\ HasError(out')
          /\ cache' = cache
          /\ locals' = locals
          /\ last_failure' = [loader |-> l, entered |-> started]

\* C11 as stated: in a render less than 300 seconds after a render in which
\* loader k raised (counted from the moment that render was entered), no query
\* runs for a loader that comes before k.
C11_AsStated ==
    [][ \A l \in Loaders :
          Calls(l) =>
            /\ CallOrderAndAbort(l)
            /\ \A k \in Loaders :
                 (FailedAt(k) /\ Before(l, k) /\ now - last_failure.entered < 300)
                     => l \notin ran' ]_vars

\* C11: the loaders are called in the fixed order; a loader that raises ends
\* the render, stores nothing and keeps the other entries; in the render after
\* one in which loader k raised, a loader before k has a stored entry, and its
\* query runs again only when that entry is 300 seconds old or older: a
\* younger entry is returned without a query.
C11_NoRetry ==
    [][ \A l \in Loaders :
          Calls(l) =>
            /\ CallOrderAndAbort(l)
            /\ \A k \in Loaders :
                 (FailedAt(k) /\ Before(l, k)) =>
                    /\ cache[l].present
                    /\ l \in ran' => now - cache[l].stored_at >= 300
                    /\ now - cache[l].stored_at < 300 =>
                          /\ l \notin ran'
                          /\ Returned(l)
                          /\ cache' = cache ]_vars

\* the render after one in which the agent loader raised, less than 300 seconds
\* later: stats and daily metrics came from the cache, the agent query ran again
C11_Witness ==
    /\ FailedAt("load_agent_performance")
    /\ now - last_failure.entered < 300
    /\ pc = "load_tag_analysis"
    /\ locals["load_current_stats"].loaded
    /\ locals["load_daily_metrics"].loaded
    /\ locals["load_agent_performance"].loaded
    /\ ran = {"load_agent_performance"}


(***************************************************************************)
(* Renders over a warehouse that answers every query, at one instant: the  *)
(* specifications below differ only in the tables the warehouse holds      *)
(***************************************************************************)
DefaultWarehouse ==
    [ load_current_stats     |-> << StatsRow(3, 2) >>,
      load_daily_metrics     |-> << DailyRow(2, 5), DailyRow(1, 4) >>,
      load_agent_performance |-> << AgentRow(1, 2, 12, 80) >>,
      load_tag_analysis      |-> << TagRow("billing", 7) >>,
      load_hourly_heatmap    |-> << HeatRow("Monday", 9, 5) >> ]

InitWith(l, tables) ==
    /\ now = 0
    /\ has_secret = FALSE
    /\ client = NoClient
    /\ built = 0
    /\ warehouse \in { [DefaultWarehouse EXCEPT ![l] = t] : t \in tables }
    /\ cache = [ k \in Loaders |-> NoEntry ]
    /\ pc = "idle"
    /\ locals = [ k \in Loaders |-> NoValue ]
    /\ ran = {}
    /\ out = <<>>
    /\ started = 0
    /\ last_failure = NoFailure

NextQuiet ==
    \/ StartRender
    \/ LoadHit
    \/ LoadMiss
    \/ RenderBody

(***************************************************************************)
(* The "Today's Tickets" card                                              *)
(***************************************************************************)
MaxTickets == 8

TicketValues == 0..MaxTickets \cup {80, 100, 120}

StatsTables == { << StatsRow(t, y) >> : t \in TicketValues, y \in TicketValues }

InitKpi == InitWith("load_current_stats", StatsTables)

SpecKpi == InitKpi /\ [][NextQuiet]_vars

CardLabelled(o, label) ==
    o[CHOOSE i \in 1..Len(o) : o[i].kind = "kpi" /\ o[i].label = label]

\* C4: the "Today's Tickets" card always shows a delta, whose number is
\* |today - yesterday|; it is framed negative exactly when today > yesterday
\* and positive otherwise, so an unchanged count shows 0 framed positive.
C4_TodayDelta ==
    Completed =>
        LET st   == locals["load_current_stats"].rows[1]
            t    == st.today_tickets
            y    == st.yesterday_tickets
            card == CardLabelled(out, "Today's Tickets")
        IN  /\ card.has_delta
            /\ card.value = t
            /\ card.delta.num = (IF t >= y THEN t - y ELSE y - t)
            /\ card.delta.text = "vs yesterday"
            /\ (t > y)  => card.delta_class = "metric-delta-negative"
            /\ (t < y)  => card.delta_class = "metric-delta-positive"
            /\ (t = y)  => card.delta.num = 0 /\ card.delta_class = "metric-delta-positive"
            /\ (t = 120 /\ y = 100) =>
                  card.delta.num = 20 /\ card.delta_class = "metric-delta-negative"
            /\ (t = 80 /\ y = 100) =>
                  card.delta.num = 20 /\ card.delta_class = "metric-delta-positive"

\* the card of a day with 80 tickets after a day with 100
C4_Witness ==
    /\ Completed
    /\ locals["load_current_stats"].rows[1].today_tickets = 80
    /\ locals["load_current_stats"].rows[1].yesterday_tickets = 100
    /\ CardLabelled(out, "Today's Tickets").delta.num = 20

(***************************************************************************)
(* The ticket volume trend                                                 *)
(***************************************************************************)
MaxDays == 9

TicketCounts == {1, 4}

\* ORDER BY created_date DESC: the newest day is the first row
DailyTable(n, count) == [ i \in 1..n |-> DailyRow(n - i + 1, count[i]) ]

\* the series 2, 4, ..., 14 of the first seven days, as the warehouse returns it
ExampleSeries == [ i \in 1..7 |-> DailyRow(8 - i, 2 * (8 - i)) ]

DailyTables ==
    { DailyTable(n, c) : n \in {0}, c \in {<<>>} }
    \cup UNION { { DailyTable(n, c) : c \in [1..n -> TicketCounts] } : n \in 1..MaxDays }
    \cup { ExampleSeries }

InitTrend == InitWith("load_daily_metrics", DailyTables)

SpecTrend == InitTrend /\ [][NextQuiet]_vars

\* C5: the trend chart plots the daily rows by ascending created_date; from the
\* 7th point on ma7 is the mean of the ticket counts of that point and the six
\* before it; at each of the first six points ma7 is undefined.
C5_MovingAverage ==
    Completed =>
        LET daily == locals["load_daily_metrics"].rows
            chart == ChartNamed(out, "trend")
            n     == Len(daily)
        IN  /\ Len(chart.x) = n /\ Len(chart.y) = n /\ Len(chart.ma7) = n
            /\ \A i \in 1..n : \A j \in 1..n : i < j => chart.x[i] < chart.x[j]
            /\ \A i \in 1..n : \E k \in 1..n :
                    /\ daily[k].created_date = chart.x[i]
                    /\ daily[k].ticket_count = chart.y[i]
            /\ \A i \in 1..n :
                    IF i >= 7
                    THEN /\ chart.ma7[i].defined
                         /\ chart.ma7[i].den = 7
                         /\ chart.ma7[i].num =
                              chart.y[i-6] + chart.y[i-5] + chart.y[i-4] + chart.y[i-3]
                              + chart.y[i-2] + chart.y[i-1] + chart.y[i]
                    ELSE ~chart.ma7[i].defined
            /\ chart.y = <<2, 4, 6, 8, 10, 12, 14>> => chart.ma7[7].num = 8 * chart.ma7[7].den

\* the series 2, 4, ..., 14: six undefined points, then the mean 8 = 56 / 7
C5_Witness ==
    /\ Completed
    /\ ChartNamed(out, "trend").y = <<2, 4, 6, 8, 10, 12, 14>>
    /\ ChartNamed(out, "trend").ma7[7] = [defined |-> TRUE, num |-> 56, den |-> 7]
    /\ ~ChartNamed(out, "trend").ma7[6].defined

(***************************************************************************)
(* The volume heatmap                                                      *)
(***************************************************************************)
MaxHeatRows == 3

HeatDays == {"Monday", "Thursday"}

HeatHours == {9, 23}

HeatCounts == {3, 5}

HeatRows == { HeatRow(d, h, c) : d \in HeatDays, h \in HeatHours, c \in HeatCounts }

HeatTables == UNION { [1..n -> HeatRows] : n \in 0..MaxHeatRows }

InitHeat == InitWith("load_hourly_heatmap", HeatTables)

SpecHeat == InitHeat /\ [][NextQuiet]_vars

\* the ticket counts of the rows of a table for one day and hour, added up
RECURSIVE TotalAt(_, _, _)
TotalAt(rows, d, h) ==
    IF rows = <<>> THEN 0
    ELSE (IF rows[1].created_day_of_week = d /\ rows[1].created_hour = h
             THEN rows[1].ticket_count ELSE 0)
         + TotalAt(Tail(rows), d, h)

HasRowsAt(rows, d, h) ==
    \E i \in 1..Len(rows) : rows[i].created_day_of_week = d /\ rows[i].created_hour = h

\* C6: the heatmap has its rows in the order Monday, ..., Sunday; every hour
\* with an input row is a column; the cell of a day and hour with input rows is
\* the sum of their ticket counts, every other cell is absent; so a day without
\* input rows is a row of absent cells.
C6_HeatmapPivot ==
    Completed =>
        LET rows  == locals["load_hourly_heatmap"].rows
            chart == ChartNamed(out, "heatmap")
        IN  /\ chart.y = << "Monday", "Tuesday", "Wednesday", "Thursday", "Friday",
                            "Saturday", "Sunday" >>
            /\ Len(chart.z) = 7
            /\ \A i \in 1..Len(rows) :
                    \E c \in 1..Len(chart.x) : chart.x[c] = rows[i].created_hour
            /\ \A d \in 1..7 :
                 /\ Len(chart.z[d]) = Len(chart.x)
                 /\ \A c \in 1..Len(chart.x) :
                      IF HasRowsAt(rows, chart.y[d], chart.x[c])
                      THEN /\ chart.z[d][c].defined
                           /\ chart.z[d][c].den = 1
                           /\ chart.z[d][c].num = TotalAt(rows, chart.y[d], chart.x[c])
                      ELSE ~chart.z[d][c].defined
            /\ rows = << HeatRow("Monday", 9, 5), HeatRow("Monday", 9, 3) >> =>
                 /\ chart.x = << 9 >>
                 /\ chart.z[1][1].num = 8

\* rows (Monday, 9, 5) and (Monday, 9, 3): one cell 8, and Tuesday without values
C6_Witness ==
    /\ Completed
    /\ locals["load_hourly_heatmap"].rows
         = << HeatRow("Monday", 9, 5), HeatRow("Monday", 9, 3) >>
    /\ ChartNamed(out, "heatmap").z[1][1] = [defined |-> TRUE, num |-> 8, den |-> 1]
    /\ ~ChartNamed(out, "heatmap").z[2][1].defined

\* C9: the heatmap matrix has 7 rows, Monday to Sunday, and 24 columns, one for
\* each hour 0..23, for every heatmap table.
C9_SevenByTwentyFour ==
    Completed =>
        LET chart == ChartNamed(out, "heatmap")
        IN  /\ Len(chart.z) = 7
            /\ chart.y = day_order
            /\ Len(chart.x) = 24
            /\ \A c \in 1..Len(chart.x) : chart.x[c] = c - 1
            /\ \A d \in 1..Len(chart.z) : Len(chart.z[d]) = 24

(***************************************************************************)
(* The agent leaderboards                                                  *)
(***************************************************************************)
MaxAtThreshold == 11

MaxBelow == 6

MaxOlder == 2

NameOrders == {"ascending", "descending"}

CsatPatterns == {"rising", "falling", "flat"}

\* ORDER BY created_month DESC, tickets_handled DESC: a agents of the latest
\* month (2) with 10 tickets, then b with 9 tickets, then c agents of month 1
\* with 30 tickets; the order of rows with equal month and tickets is the
\* warehouse's choice, here by ascending or by descending agent name
AgentTable(a, b, c, names, csat) ==
    LET n == a + b + c IN
    [ i \in 1..n |->
        AgentRow(IF names = "ascending" THEN i ELSE n + 1 - i,
                 IF i <= a + b THEN 2 ELSE 1,
                 IF i <= a THEN 10 ELSE IF i <= a + b THEN 9 ELSE 30,
                 IF csat = "rising" THEN 50 + i
                 ELSE IF csat = "falling" THEN 90 - i ELSE 80) ]

AgentTables ==
    { AgentTable(a, b, c, names, csat) :
        a \in 0..MaxAtThreshold, b \in 0..MaxBelow, c \in 0..MaxOlder,
        names \in NameOrders, csat \in CsatPatterns }

InitAgents == InitWith("load_agent_performance", AgentTables)

SpecAgents == InitAgents /\ [][NextQuiet]_vars

Names(rows) == { rows[i].agent_name : i \in 1..Len(rows) }

\* the table with rows i and i + 1 exchanged
SwapRows(rows, i) ==
    [ k \in 1..Len(rows) |->
        IF k = i THEN rows[i + 1] ELSE IF k = i + 1 THEN rows[i] ELSE rows[k] ]

\* the agents of the tickets leaderboard main() builds from a table
LeaderboardNames(rows) == Names(TopAgentsOf(CurrentMonth(rows)))

\* C3: the tickets leaderboard has only rows of the latest month, min(10, number
\* of latest-month rows) of them, no row left out has more tickets than a row
\* taken, and the same rows in another order give the same leaderboard.
C3_LeaderboardStable ==
    (Completed /\ "top_agents" \in ChartNames(out)) =>
        LET rows   == locals["load_agent_performance"].rows
            latest == LatestMonthRows(rows)
            board  == ChartNamed(out, "top_agents").rows
        IN  /\ \A k \in 1..Len(board) :
                  \E i \in latest : rows[i] = board[k]
            /\ Len(board) = Min2(10, Cardinality(latest))
            /\ \A i \in latest : \A k \in 1..Len(board) :
                  rows[i].agent_name \notin Names(board)
                      => rows[i].tickets_handled <= board[k].tickets_handled
            /\ \A i \in 1..(Len(rows) - 1) :
                  LeaderboardNames(SwapRows(rows, i)) = Names(board)

\* C10: the top-CSAT chart has at most 5 rows, each of the latest month and
\* with tickets_handled >= 10; no latest-month row with tickets_handled >= 10
\* that is left out has a higher csat_rate than a row that is in; the chart is
\* drawn exactly when the latest month has such a row.
C10_TopCsat ==
    Completed =>
        LET rows   == locals["load_agent_performance"].rows
            latest == LatestMonthRows(rows)
            able   == { i \in latest : rows[i].tickets_handled >= 10 }
        IN  IF "top_csat" \in ChartNames(out)
            THEN LET board == ChartNamed(out, "top_csat").rows IN
                 /\ Len(board) <= 5
                 /\ Len(board) = Min2(5, Cardinality(able))
                 /\ Cardinality(Names(board)) = Len(board)
                 /\ \A k \in 1..Len(board) :
                      /\ \E i \in able : rows[i] = board[k]
                      /\ board[k].tickets_handled >= 10
                 /\ \A i \in able : \A k \in 1..Len(board) :
                      rows[i].agent_name \notin Names(board)
                          => rows[i].csat_rate <= board[k].csat_rate
            ELSE able = {}

\* six agents with 10 tickets, of whom five are charted, and an agent with 9
\* tickets and a higher csat_rate than all of them who is not
C10_Witness ==
    /\ Completed
    /\ "top_csat" \in ChartNames(out)
    /\ Len(ChartNamed(out, "top_csat").rows) = 5
    /\ LET rows == locals["load_agent_performance"].rows IN
         /\ Cardinality({ i \in 1..Len(rows) :
                            rows[i].created_month = 2 /\ rows[i].tickets_handled = 10 }) = 6
         /\ \E i \in 1..Len(rows) :
               /\ rows[i].created_month = 2
               /\ rows[i].tickets_handled = 9
               /\ \A k \in 1..5 :
                    rows[i].csat_rate > ChartNamed(out, "top_csat").rows[k].csat_rate
         /\ \E i \in 1..Len(rows) : rows[i].created_month = 1

====
